---- MODULE Spec2Model ----
(***************************************************************************)
(* Model of the ModernStopwatch component (src/app/page.tsx).              *)
(*                                                                         *)
(* The component is a React client component of a Next.js app-router page, *)
(* so it runs under a concurrent React root.  What the model takes from    *)
(* the runtime:                                                            *)
(*   - JavaScript runs one task to completion: a timer callback and a      *)
(*     click never overlap;                                                *)
(*   - a click is a discrete event: the state updates its handler queues   *)
(*     are rendered, and the effects of that render are run, before the    *)
(*     click's task ends (pc goes idle -> render -> effects -> idle, and   *)
(*     no timer callback runs in between);                                 *)
(*   - a handler reads `time`, `isRunning` and `laps` of the render that   *)
(*     created it, i.e. the committed values, not queued ones;             *)
(*   - setTime called from the interval callback is queued at default      *)
(*     priority and rendered by a later task (RenderTick); a click that    *)
(*     comes first either leaves that update queued or renders it along    *)
(*     with its own, depending on the React build (unifiedLanes; both      *)
(*     builds are modelled);                                               *)
(*   - clearInterval stops every later callback of that timer.             *)
(* The handlers are modelled as callable in every state; the rendered      *)
(* buttons offer Start only while stopped and Pause and Record Lap only    *)
(* while running (lines 151-190).                                          *)
(* Time is in milliseconds.                                                *)
(***************************************************************************)
EXTENDS Integers, Sequences, FiniteSets, TLC

\* ---- bounds of the model
MaxNow == 40
MaxLaps == 3
MaxTimers == 3
ClockStep == 5

\* ---- program constants
IntervalMs == 10

\* null of a ref holding a timer handle (handles are positive, null is falsy)
Null == 0

\* an optional value: <<>> when absent, <<v>> when present
None == <<>>
Some(v) == <<v>>
Get(o) == o[1]

VARIABLES
  now,            \* Date.now(), relative to the mount
  time,           \* useState(0): the committed (displayed) elapsed time
  isRunning,      \* useState(false), committed
  laps,           \* useState<LapTime[]>([]), committed
  intervalRef,    \* useRef: handle of the interval, or Null
  startTimeRef,   \* useRef(0)
  pausedTimeRef,  \* useRef(0)
  timers,         \* the host's live intervals: records [h: handle, at: when set or last fired]
  nextHandle,     \* the handle the next setInterval returns
  tickUpdate,     \* setTime(v) queued by the interval callback and not yet rendered, or None
  pc,             \* "idle" | "render" | "effects": where the current click's task is
  op,             \* the handler the current click ran, or "none" between clicks
  qRunning,       \* setIsRunning(v) queued by the handler, or None
  qTime,          \* setTime(v) queued by the handler, or None
  qLaps,          \* setLaps update queued by the handler: None, <<"clear">> or <<"append", lap>>
  mounted,        \* FALSE once the component is unmounted
  unifiedLanes,   \* the build: TRUE when a click's render also takes the updates queued by timers
  display,        \* the rendered text of the time display, {formatTime(time)}, as characters
  lastResetAt,    \* history: Date.now() at the last handleReset, -1 before the first
  resumedAt       \* history: Date.now() when the effect last set the interval up, -1 before

vars == <<now, time, isRunning, laps, intervalRef, startTimeRef, pausedTimeRef,
          timers, nextHandle, tickUpdate, pc, op, qRunning, qTime, qLaps, mounted,
          unifiedLanes, display, lastResetAt, resumedAt>>

refs == <<intervalRef, startTimeRef, pausedTimeRef>>
committed == <<time, isRunning, laps>>
queued == <<qRunning, qTime, qLaps>>
host == <<mounted, unifiedLanes>>
hist == <<lastResetAt, resumedAt>>

\* ---- pure functions

\* interface LapTime
LapTime(id, t, d) == [id |-> id, time |-> t, lapDuration |-> d]

\* faulty variant: the guard without the time > 0 test
LapAllowed_NoTimeCheck(running, t) == running

\* handleLap's guard: if (isRunning && time > 0)
LapAllowed(running, t) == running /\ t > 0

\* faulty variant: every lap's duration is the cumulative time
NewLap_DurationIsTime(ls, t) == LapTime(Len(ls) + 1, t, t)

\* faulty variant: the duration is taken from the first lap instead of the last
NewLap_SinceFirst(ls, t) ==
  LapTime(Len(ls) + 1, t, IF Len(ls) = 0 THEN t ELSE t - ls[1].time)

\* faulty variant: ids start at 0
NewLap_ZeroBasedId(ls, t) ==
  LapTime(Len(ls), t, IF Len(ls) = 0 THEN t ELSE t - ls[Len(ls)].time)

\* the lap handleLap builds from the values of its render
NewLap(ls, t) ==
  LET lapDuration == IF Len(ls) = 0 THEN t ELSE t - ls[Len(ls)].time
  IN  LapTime(Len(ls) + 1, t, lapDuration)

\* laps.reduce((best, current) => current.lapDuration < best.lapDuration ? current : best)
RECURSIVE ReduceBest(_, _, _)
ReduceBest(ls, i, best) ==
  IF i > Len(ls) THEN best
  ELSE ReduceBest(ls, i + 1, IF ls[i].lapDuration < best.lapDuration THEN ls[i] ELSE best)

\* faulty variant: the first lap, without the reduction
getBestLap_First(ls) == IF Len(ls) = 0 THEN None ELSE Some(ls[1])

getBestLap(ls) == IF Len(ls) = 0 THEN None ELSE Some(ReduceBest(ls, 2, ls[1]))

\* faulty variant: >= instead of >, so the last of equal laps wins
RECURSIVE ReduceWorst_LastWins(_, _, _)
ReduceWorst_LastWins(ls, i, worst) ==
  IF i > Len(ls) THEN worst
  ELSE ReduceWorst_LastWins(ls, i + 1,
                            IF ls[i].lapDuration >= worst.lapDuration THEN ls[i] ELSE worst)

\* laps.reduce((worst, current) => current.lapDuration > worst.lapDuration ? current : worst)
RECURSIVE ReduceWorst(_, _, _)
ReduceWorst(ls, i, worst) ==
  IF i > Len(ls) THEN worst
  ELSE ReduceWorst(ls, i + 1, IF ls[i].lapDuration > worst.lapDuration THEN ls[i] ELSE worst)

getWorstLap(ls) == IF Len(ls) = 0 THEN None ELSE Some(ReduceWorst(ls, 2, ls[1]))

bestLap == getBestLap(laps)
worstLap == getWorstLap(laps)

\* the badges of a row of the lap list: bestLap && lap.id === bestLap.id, and
\* worstLap && lap.id === worstLap.id && laps.length > 1
FastestBadge(lap) == bestLap # None /\ lap.id = Get(bestLap).id
\* faulty variant: the Slowest badge without the test on the number of laps
SlowestBadge_NoCountTest(lap) == worstLap # None /\ lap.id = Get(worstLap).id

SlowestBadge(lap) == worstLap # None /\ lap.id = Get(worstLap).id /\ Len(laps) > 1

\* ---- formatTime; strings are sequences of one-character strings

\* the decimal digit d as a character
DigitChar(d) == <<"0", "1", "2", "3", "4", "5", "6", "7", "8", "9">>[d + 1]

\* Number.prototype.toString for a non-negative integer
RECURSIVE toString(_)
toString(n) == IF n < 10 THEN <<DigitChar(n)>> ELSE toString(n \div 10) \o <<DigitChar(n % 10)>>

\* String.prototype.padStart(len, ch)
RECURSIVE padStart(_, _, _)
padStart(str, len, ch) == IF Len(str) >= len THEN str ELSE padStart(<<ch>> \o str, len, ch)

\* faulty variant: the seconds are not padded
formatTime_NoSecondsPad(milliseconds) ==
  LET totalSeconds == milliseconds \div 1000
      minutes == totalSeconds \div 60
      seconds == totalSeconds % 60
      ms == (milliseconds % 1000) \div 10
  IN  padStart(toString(minutes), 2, "0") \o <<":">>
        \o toString(seconds) \o <<".">>
        \o padStart(toString(ms), 2, "0")

\* faulty variant: the centiseconds are rounded to the nearest instead of truncated
formatTime_Rounded(milliseconds) ==
  LET totalSeconds == milliseconds \div 1000
      minutes == totalSeconds \div 60
      seconds == totalSeconds % 60
      ms == ((milliseconds % 1000) + 5) \div 10
  IN  padStart(toString(minutes), 2, "0") \o <<":">>
        \o padStart(toString(seconds), 2, "0") \o <<".">>
        \o padStart(toString(ms), 2, "0")

\* formatTime(milliseconds), for milliseconds >= 0 (the elapsed time is never negative)
formatTime(milliseconds) ==
  LET totalSeconds == milliseconds \div 1000
      minutes == totalSeconds \div 60
      seconds == totalSeconds % 60
      ms == (milliseconds % 1000) \div 10
  IN  padStart(toString(minutes), 2, "0") \o <<":">>
        \o padStart(toString(seconds), 2, "0") \o <<".">>
        \o padStart(toString(ms), 2, "0")

\* ---- the effect of useEffect(..., [isRunning])

\* clearInterval(h)
ClearInterval(ts, h) == {t \in ts : t.h # h}

\* setInterval(callback, IntervalMs) returning handle h at time clock
SetInterval(ts, h, clock) == ts \cup {[h |-> h, at |-> clock]}

\* faulty variant: a cleanup that forgets the handle and leaves the interval running
EffectCleanup_NoClear(ref, ts) == [ref |-> Null, timers |-> ts]

\* the cleanup the effect returns: the interval handle and the live timers after it
EffectCleanup(ref, ts) ==
  IF ref # Null THEN [ref |-> Null, timers |-> ClearInterval(ts, ref)]
  ELSE [ref |-> ref, timers |-> ts]

\* faulty variant: the start reference is Date.now(), without the paused accumulator
EffectBody_IgnoresPaused(running, ref, ts, start, paused, clock, handle) ==
  IF running
  THEN [ref |-> handle,
        timers |-> SetInterval(IF ref # Null THEN ClearInterval(ts, ref) ELSE ts, handle, clock),
        start |-> clock,
        handle |-> handle + 1]
  ELSE IF ref # Null
  THEN [ref |-> Null, timers |-> ClearInterval(ts, ref), start |-> start, handle |-> handle]
  ELSE [ref |-> ref, timers |-> ts, start |-> start, handle |-> handle]

\* the effect's body for the committed isRunning
EffectBody(running, ref, ts, start, paused, clock, handle) ==
  IF running
  THEN [ref |-> handle,
        timers |-> SetInterval(IF ref # Null THEN ClearInterval(ts, ref) ELSE ts, handle, clock),
        start |-> clock - paused,
        handle |-> handle + 1]
  ELSE IF ref # Null
  THEN [ref |-> Null, timers |-> ClearInterval(ts, ref), start |-> start, handle |-> handle]
  ELSE [ref |-> ref, timers |-> ts, start |-> start, handle |-> handle]

\* ---- initial state: mounted, first render committed, first effect run (isRunning false)
Init ==
  /\ now = 0
  /\ time = 0
  /\ isRunning = FALSE
  /\ laps = <<>>
  /\ intervalRef = Null
  /\ startTimeRef = 0
  /\ pausedTimeRef = 0
  /\ timers = {}
  /\ nextHandle = 1
  /\ tickUpdate = None
  /\ pc = "idle"
  /\ op = "none"
  /\ qRunning = None
  /\ qTime = None
  /\ qLaps = None
  /\ mounted = TRUE
  /\ unifiedLanes \in BOOLEAN
  /\ display = formatTime(0)
  /\ lastResetAt = -1
  /\ resumedAt = -1

\* ---- the clock
Advance ==
  /\ mounted
  /\ \E k \in 1..2 :
       /\ now + k * ClockStep <= MaxNow
       /\ now' = now + k * ClockStep
  /\ UNCHANGED <<committed, refs, timers, nextHandle, tickUpdate, pc, op, queued, host, display, hist>>

\* ---- the interval callback: setTime(Date.now() - startTimeRef.current)
Tick ==
  /\ pc = "idle"
  /\ \E t \in timers :
       /\ now - t.at >= IntervalMs
       /\ timers' = (timers \ {t}) \cup {[h |-> t.h, at |-> now]}
  /\ tickUpdate' = Some(now - startTimeRef)
  /\ UNCHANGED <<now, committed, refs, nextHandle, pc, op, queued, host, display, hist>>

\* the render of the interval callback's update, in a task of its own
RenderTick ==
  /\ mounted
  /\ pc = "idle"
  /\ tickUpdate # None
  /\ time' = Get(tickUpdate)
  /\ display' = formatTime(time')
  /\ tickUpdate' = None
  /\ UNCHANGED <<now, isRunning, laps, refs, timers, nextHandle, pc, op, queued, host, hist>>

\* ---- the click handlers
handleStart ==
  /\ mounted
  /\ pc = "idle"
  /\ nextHandle <= MaxTimers
  /\ op' = "start"
  /\ qRunning' = Some(TRUE)
  /\ pc' = "render"
  /\ UNCHANGED <<now, committed, refs, timers, nextHandle, tickUpdate, qTime, qLaps, host, display, hist>>

handlePause ==
  /\ mounted
  /\ pc = "idle"
  /\ op' = "pause"
  /\ qRunning' = Some(FALSE)
  /\ pausedTimeRef' = time
  /\ pc' = "render"
  /\ UNCHANGED <<now, committed, intervalRef, startTimeRef, timers, nextHandle, tickUpdate,
                 qTime, qLaps, host, display, hist>>

\* faulty variant: Reset forgets the handle without clearing the interval
handleReset_DropsHandle ==
  /\ mounted
  /\ pc = "idle"
  /\ op' = "reset"
  /\ qRunning' = Some(FALSE)
  /\ qTime' = Some(0)
  /\ qLaps' = <<"clear">>
  /\ pausedTimeRef' = 0
  /\ lastResetAt' = now
  /\ intervalRef' = Null
  /\ pc' = "render"
  /\ UNCHANGED <<now, committed, startTimeRef, nextHandle, tickUpdate, host, display, resumedAt,
                 timers>>

\* faulty variant: handleReset without pausedTimeRef.current = 0
handleReset_KeepsPaused ==
  /\ mounted
  /\ pc = "idle"
  /\ op' = "reset"
  /\ qRunning' = Some(FALSE)
  /\ qTime' = Some(0)
  /\ qLaps' = <<"clear">>
  /\ lastResetAt' = now
  /\ IF intervalRef # Null
     THEN /\ timers' = ClearInterval(timers, intervalRef)
          /\ intervalRef' = Null
     ELSE UNCHANGED <<intervalRef, timers>>
  /\ pc' = "render"
  /\ UNCHANGED <<now, committed, startTimeRef, pausedTimeRef, nextHandle, tickUpdate, host, display,
                 resumedAt>>

handleReset ==
  /\ mounted
  /\ pc = "idle"
  /\ op' = "reset"
  /\ qRunning' = Some(FALSE)
  /\ qTime' = Some(0)
  /\ qLaps' = <<"clear">>
  /\ pausedTimeRef' = 0
  /\ lastResetAt' = now
  /\ IF intervalRef # Null
     THEN /\ timers' = ClearInterval(timers, intervalRef)
          /\ intervalRef' = Null
     ELSE UNCHANGED <<intervalRef, timers>>
  /\ pc' = "render"
  /\ UNCHANGED <<now, committed, startTimeRef, nextHandle, tickUpdate, host, display, resumedAt>>

handleLap ==
  /\ mounted
  /\ pc = "idle"
  /\ LapAllowed(isRunning, time) => Len(laps) < MaxLaps
  /\ op' = "lap"
  /\ qLaps' = IF LapAllowed(isRunning, time) THEN <<"append", NewLap(laps, time)>> ELSE None
  /\ pc' = "render"
  /\ UNCHANGED <<now, committed, refs, timers, nextHandle, tickUpdate, qRunning, qTime, host, display, hist>>

\* faulty variant: the new lap is put in front of the list
ApplyLaps_Prepend(ls, q) ==
  IF q = None THEN ls
  ELSE IF q[1] = "clear" THEN <<>>
  ELSE <<q[2]>> \o ls

\* ---- the render that ends the click: the queued updates are applied in order
ApplyLaps(ls, q) ==
  IF q = None THEN ls
  ELSE IF q[1] = "clear" THEN <<>>
  ELSE Append(ls, q[2])

Render ==
  /\ mounted
  /\ pc = "render"
  /\ isRunning' = IF qRunning # None THEN Get(qRunning) ELSE isRunning
  /\ laps' = ApplyLaps(laps, qLaps)
  /\ IF unifiedLanes /\ tickUpdate # None /\ queued # <<None, None, None>>
     THEN \* the interval callback's update is rendered with the click's, in the order queued
          /\ time' = IF qTime # None THEN Get(qTime) ELSE Get(tickUpdate)
          /\ tickUpdate' = None
     ELSE \* it stays queued; a setTime of the click, queued after it, decides the final value
          /\ time' = IF qTime # None THEN Get(qTime) ELSE time
          /\ tickUpdate' = IF qTime # None THEN None ELSE tickUpdate
  /\ qRunning' = None
  /\ qTime' = None
  /\ qLaps' = None
  /\ pc' = IF isRunning' # isRunning THEN "effects" ELSE "idle"
  /\ op' = IF isRunning' # isRunning THEN op ELSE "none"
  /\ display' = formatTime(time')
  /\ UNCHANGED <<now, refs, timers, nextHandle, host, hist>>

\* faulty variant: an effect that sets the interval up when running and never clears it
Effects_StartOnly ==
  /\ mounted
  /\ pc = "effects"
  /\ IF isRunning
     THEN LET b == EffectBody(TRUE, intervalRef, timers, startTimeRef, pausedTimeRef, now,
                              nextHandle)
          IN  /\ intervalRef' = b.ref
              /\ timers' = b.timers
              /\ startTimeRef' = b.start
              /\ nextHandle' = b.handle
     ELSE UNCHANGED <<intervalRef, timers, startTimeRef, nextHandle>>
  /\ resumedAt' = IF isRunning THEN now ELSE resumedAt
  /\ pc' = "idle"
  /\ op' = "none"
  /\ UNCHANGED <<now, committed, pausedTimeRef, tickUpdate, queued, host, display, lastResetAt>>

\* the effect of the render that changed isRunning: the previous cleanup, then the body
Effects ==
  /\ mounted
  /\ pc = "effects"
  /\ LET c == EffectCleanup(intervalRef, timers)
         b == EffectBody(isRunning, c.ref, c.timers, startTimeRef, pausedTimeRef, now, nextHandle)
     IN  /\ intervalRef' = b.ref
         /\ timers' = b.timers
         /\ startTimeRef' = b.start
         /\ nextHandle' = b.handle
  /\ resumedAt' = IF isRunning THEN now ELSE resumedAt
  /\ pc' = "idle"
  /\ op' = "none"
  /\ UNCHANGED <<now, committed, pausedTimeRef, tickUpdate, queued, host, display, lastResetAt>>

\* ---- unmount: the effect's cleanup runs; the component's state is discarded
Unmount ==
  /\ mounted
  /\ pc = "idle"
  /\ LET c == EffectCleanup(intervalRef, timers)
     IN  /\ intervalRef' = c.ref
         /\ timers' = c.timers
  /\ mounted' = FALSE
  /\ UNCHANGED <<now, committed, startTimeRef, pausedTimeRef, nextHandle, tickUpdate, pc, op, queued,
                 unifiedLanes, display, hist>>

Next ==
  \/ Advance
  \/ Tick
  \/ RenderTick
  \/ handleStart
  \/ handlePause
  \/ handleReset
  \/ handleLap
  \/ Render
  \/ Effects
  \/ Unmount

Spec == Init /\ [][Next]_vars

\* ---- long runs: the same component with the clock read at a few instants minutes
\* and hours after the mount, so that the display shows seconds, minutes and more
\* than 99 minutes
LongInstants == {61234, 3599999, 3600000, 6000000}

AdvanceLong ==
  /\ mounted
  /\ \E t \in LongInstants :
       /\ t > now
       /\ now' = t
  /\ UNCHANGED <<committed, refs, timers, nextHandle, tickUpdate, pc, op, queued, host, display, hist>>

LongRunNext ==
  \/ AdvanceLong
  \/ Tick
  \/ RenderTick
  \/ handleStart
  \/ handlePause
  \/ handleReset
  \/ handleLap
  \/ Render
  \/ Effects
  \/ Unmount

LongRunSpec == Init /\ [][LongRunNext]_vars

\* ---- the runs of the spec's scenario: the clock is read 1500 ms, 4200 ms and
\* 5000 ms after the mount
ScenarioInstants == {1500, 4200, 5000}

AdvanceScenario ==
  /\ mounted
  /\ \E t \in ScenarioInstants :
       /\ t > now
       /\ now' = t
  /\ UNCHANGED <<committed, refs, timers, nextHandle, tickUpdate, pc, op, queued, host, display, hist>>

ScenarioNext ==
  \/ AdvanceScenario
  \/ Tick
  \/ RenderTick
  \/ handleStart
  \/ handlePause
  \/ handleReset
  \/ handleLap
  \/ Render
  \/ Effects
  \/ Unmount

ScenarioSpec == Init /\ [][ScenarioNext]_vars

\* ---- vocabulary of the properties

\* the refs, the host's timers and the update the interval callback has queued
prog == <<time, isRunning, laps, intervalRef, startTimeRef, pausedTimeRef, timers, tickUpdate>>

\* a step that runs handler h (the click's task begins)
HandlerStep(h) == pc = "idle" /\ pc' = "render" /\ op' = h

\* the step that ends the task of a click on h: its render, or its effects when isRunning changed
ClickDone(h) == op = h /\ pc # "idle" /\ pc' = "idle"

\* the time the stopwatch can have measured since the last Reset (or since the mount)
SinceReset == IF lastResetAt < 0 THEN now ELSE now - lastResetAt

\* ---- C1
\* C1: when the task of a Reset click ends, whatever the state it was clicked in, the
\* stopwatch is stopped, the displayed time is 0, the paused accumulator is 0, the lap
\* list is empty and no timer or queued sample is left; and from then on the displayed
\* time, a sample queued for display and the paused accumulator never exceed the
\* wall-clock time passed since that Reset, so a later Start counts from 0.
C1_ResetClears ==
  [][ /\ ClickDone("reset") =>
           /\ ~isRunning'
           /\ time' = 0
           /\ pausedTimeRef' = 0
           /\ laps' = <<>>
           /\ intervalRef' = Null
           /\ timers' = {}
           /\ tickUpdate' = None
      /\ op' # "reset" =>
           /\ time' <= SinceReset'
           /\ (tickUpdate' # None => Get(tickUpdate') <= SinceReset')
           /\ pausedTimeRef' <= SinceReset'
    ]_vars

\* a Reset was clicked after time had passed, the stopwatch was started again and shows a sample
C1_Witness ==
  /\ lastResetAt > 0
  /\ isRunning
  /\ time > 0
  /\ pc = "idle"

\* ---- C2
\* C2: while the stopwatch is running, no step lowers the displayed elapsed time, in
\* any run without a Reset.
C2_MonotonicWhileRunning ==
  [][ (lastResetAt' < 0 /\ isRunning /\ isRunning') => time' >= time ]_vars

\* ---- C3
\* the stopwatch is paused: handlePause has returned, or the committed state is stopped,
\* and no Start or Reset has been clicked since
Paused ==
  \/ op = "pause"
  \/ ~isRunning /\ op \notin {"start", "reset"}

\* C3: while paused, no step changes the displayed elapsed time.
C3_FrozenWhilePaused ==
  [][ (Paused /\ op' \notin {"start", "reset"}) => time' = time ]_vars

\* ---- C4
\* handlePause or handleReset has returned and Start has not been clicked since
StoppedByHandler ==
  \/ op \in {"pause", "reset"}
  \/ pc = "idle" /\ ~isRunning

\* C4: once handlePause or handleReset has returned, the interval callback cannot run
\* until the next Start: it is not enabled, and when the click's task has ended no
\* timer is live.
C4_NoTickAfterStop ==
  StoppedByHandler => (~ENABLED Tick /\ (pc = "idle" => timers = {} /\ intervalRef = Null))

\* paused after running, with wall-clock time passing beyond the interval's period
C4_Witness ==
  /\ pc = "idle"
  /\ ~isRunning
  /\ mounted
  /\ lastResetAt < 0
  /\ pausedTimeRef > 0
  /\ now - (startTimeRef + pausedTimeRef) >= IntervalMs

\* ---- C5
\* C5: handleLap clicked while stopped, or while running with a displayed time of 0,
\* queues no update and changes neither the lap list nor any other part of the state,
\* through the end of the click's task.
C5_LapNoOp ==
  [][ ((HandlerStep("lap") \/ ClickDone("lap")) /\ ~(isRunning /\ time > 0)) =>
         (prog' = prog /\ queued' = <<None, None, None>>) ]_vars

\* Record Lap was clicked right after Start, before the first sample was displayed
C5_Witness ==
  /\ op = "lap"
  /\ pc = "render"
  /\ isRunning
  /\ time = 0
  /\ tickUpdate # None

\* ---- C6
\* the duration the lap recorded now must have: since the last lap, or since 0
ExpectedDuration == IF laps = <<>> THEN time ELSE time - laps[Len(laps)].time

\* C6: handleLap clicked while running with displayed time e > 0 queues exactly one
\* append; by the end of the click's task the list is the old list plus one lap at the
\* end, with cumulative time e and duration e minus the previous lap's cumulative time
\* (e for the first lap); the handler changes nothing else: not the running flag, the
\* refs or the timer, and the displayed time changes only if a sample the interval had
\* already queued is rendered with the click.
C6_LapAppends ==
  [][ (isRunning /\ time > 0) =>
        /\ HandlerStep("lap") =>
             /\ prog' = prog
             /\ qRunning' = None
             /\ qTime' = None
             /\ Len(qLaps') = 2
             /\ qLaps'[1] = "append"
             /\ qLaps'[2].time = time
             /\ qLaps'[2].lapDuration = ExpectedDuration
        /\ ClickDone("lap") =>
             /\ Len(laps') = Len(laps) + 1
             /\ SubSeq(laps', 1, Len(laps)) = laps
             /\ laps'[Len(laps')].time = time
             /\ laps'[Len(laps')].lapDuration = ExpectedDuration
             /\ isRunning' = isRunning
             /\ refs' = refs
             /\ timers' = timers
             /\ \/ time' = time /\ tickUpdate' = tickUpdate
                \/ tickUpdate # None /\ time' = Get(tickUpdate) /\ tickUpdate' = None
    ]_vars

\* a second lap was recorded later than the first
C6_Witness ==
  /\ Len(laps) >= 2
  /\ laps[2].time > laps[1].time
  /\ laps[2].lapDuration < laps[2].time
  /\ isRunning
  /\ pc = "idle"

\* ---- C7
RECURSIVE SumDurations(_)
SumDurations(ls) == IF ls = <<>> THEN 0 ELSE ls[1].lapDuration + SumDurations(Tail(ls))

\* C7: whenever the lap list is not empty, the lap durations sum to the cumulative
\* time of the last lap.
C7_TelescopingSum ==
  laps # <<>> => SumDurations(laps) = laps[Len(laps)].time

\* three laps, the last two recorded between two samples (same cumulative time)
C7_Witness ==
  /\ Len(laps) = 3
  /\ laps[1].time < laps[2].time
  /\ laps[2].time = laps[3].time

\* ---- C8
\* C8: the i-th lap of the list has id i, in every state, also after a Reset.
C8_SequentialIds ==
  \A i \in 1..Len(laps) : laps[i].id = i

\* laps recorded after a Reset that was clicked once time had passed
C8_Witness ==
  /\ lastResetAt > 0
  /\ Len(laps) = 2

\* ---- C9
\* the laps of the list, as a set
LapSet == {laps[i] : i \in 1..Len(laps)}

\* C9: whenever a lap exists, the best lap and the worst lap are laps of the list, no
\* lap is shorter than the best and none is longer than the worst.
C9_BestWorstBounds ==
  laps # <<>> =>
    /\ bestLap # None
    /\ worstLap # None
    /\ Get(bestLap) \in LapSet
    /\ Get(worstLap) \in LapSet
    /\ \A l \in LapSet : Get(bestLap).lapDuration <= l.lapDuration
    /\ \A l \in LapSet : Get(worstLap).lapDuration >= l.lapDuration

\* three laps, the second the shortest and the third the longest
C9_Witness ==
  /\ Len(laps) = 3
  /\ laps[2].lapDuration < laps[1].lapDuration
  /\ laps[1].lapDuration < laps[3].lapDuration

\* ---- C10
\* the first position of the list holding a lap of duration d
FirstWith(d) == CHOOSE i \in 1..Len(laps) :
                  /\ laps[i].lapDuration = d
                  /\ \A j \in 1..(i - 1) : laps[j].lapDuration # d

\* C10: with no lap, best and worst are null; otherwise each is the earliest lap of
\* its duration: no lap with the same duration precedes it or has a smaller id.
C10_NullAndFirstOccurrence ==
  /\ laps = <<>> => (bestLap = None /\ worstLap = None)
  /\ laps # <<>> =>
       /\ Get(bestLap) = laps[FirstWith(Get(bestLap).lapDuration)]
       /\ Get(worstLap) = laps[FirstWith(Get(worstLap).lapDuration)]
       /\ \A l \in LapSet :
            /\ l.lapDuration = Get(bestLap).lapDuration => Get(bestLap).id <= l.id
            /\ l.lapDuration = Get(worstLap).lapDuration => Get(worstLap).id <= l.id

\* the shortest duration is shared by the second and third lap, the longest by none
C10_Witness ==
  /\ Len(laps) = 3
  /\ laps[2].lapDuration = laps[3].lapDuration
  /\ laps[2].lapDuration < laps[1].lapDuration

\* ---- C11
\* the step in which the effect runs after a render that set isRunning to true
StartEffectStep == pc = "effects" /\ pc' = "idle" /\ isRunning

\* the step in which the interval callback runs
TickStep == pc = "idle" /\ pc' = "idle" /\ mounted' /\ timers' # timers

\* the step in which the sample queued by the interval callback is rendered alone
RenderTickStep == pc = "idle" /\ pc' = "idle" /\ tickUpdate # None /\ tickUpdate' = None

\* C11: the effect of a Start sets the start reference to now minus the paused
\* accumulator; every sample the interval takes is now minus the start reference, which
\* is the paused accumulator plus the time since that resume, whatever the time spent
\* paused; and that sample is the time displayed when it is rendered.
C11_AccumulatesAcrossPauses ==
  [][ /\ StartEffectStep => startTimeRef' = now - pausedTimeRef
      /\ TickStep =>
           /\ tickUpdate' = Some(now - startTimeRef)
           /\ tickUpdate' = Some(pausedTimeRef + (now - resumedAt))
      /\ RenderTickStep => time' = Get(tickUpdate)
    ]_vars

\* running again after a pause with a positive accumulator, and a sample taken after the
\* resume is displayed
C11_Witness ==
  /\ isRunning
  /\ pc = "idle"
  /\ nextHandle >= 3
  /\ pausedTimeRef > 0
  /\ tickUpdate = None
  /\ time = pausedTimeRef + (now - resumedAt)
  /\ now > resumedAt
  /\ lastResetAt < 0

\* ---- C12
\* a step of a click on h whose render changes no isRunning: the handler, or the render
\* that ends the click's task
PlainClickStep(h) == HandlerStep(h) \/ (op = h /\ pc = "render" /\ pc' = "idle")

\* the step leaves the component's state as it is; at most a sample the interval had
\* already queued is rendered
StateKept ==
  /\ isRunning' = isRunning
  /\ laps' = laps
  /\ refs' = refs
  /\ timers' = timers
  /\ \/ time' = time /\ tickUpdate' = tickUpdate
     \/ tickUpdate # None /\ time' = Get(tickUpdate) /\ tickUpdate' = None

\* C12: Start clicked while running and Pause clicked while paused leave the state
\* unchanged: no start reference is recomputed, no timer is created, and the paused
\* accumulator keeps its value.
C12_UnmetPreconditionsNoOp ==
  [][ /\ (PlainClickStep("start") /\ isRunning) => StateKept
      /\ (PlainClickStep("pause") /\ ~isRunning) => StateKept
    ]_vars

\* ---- C13
\* C13: unmounting cancels the periodic callback: once the component is unmounted, whatever
\* state it was in, no interval is live, the handle is cleared, and nothing changes the
\* discarded state any more.
C13_UnmountCancels ==
  [][ /\ ~mounted' => (timers' = {} /\ intervalRef' = Null)
      /\ ~mounted => UNCHANGED <<committed, tickUpdate, queued, display>>
    ]_vars

\* unmounted while running, after samples had been displayed; the clock has moved on by
\* more than an interval since the last displayed sample
C13_Witness ==
  /\ ~mounted /\ isRunning /\ time > 0
  /\ now - startTimeRef >= time + 2 * IntervalMs

\* ---- C14
\* C14: laps are append-only: every step that is not part of a Reset click (Start, Pause,
\* Lap, interval callback, render, effect) leaves the laps recorded so far unchanged and in
\* place, so the old list is a prefix of the new one; only Reset removes laps.
C14_AppendOnly ==
  [][ op # "reset" =>
        /\ Len(laps') >= Len(laps)
        /\ SubSeq(laps', 1, Len(laps)) = laps
    ]_vars

\* two laps recorded, then a pause, a resume and a second pause, the laps still there
C14_Witness ==
  /\ Len(laps) >= 2 /\ nextHandle >= 3 /\ ~isRunning /\ pc = "idle"
  /\ lastResetAt < 0

\* ---- C15
IsDigit(c) == \E d \in 0..9 : DigitChar(d) = c
DigitValue(c) == CHOOSE d \in 0..9 : DigitChar(d) = c

\* the number a string of decimal digits denotes
RECURSIVE Numeral(_)
Numeral(str) ==
  IF str = <<>> THEN 0
  ELSE 10 * Numeral(SubSeq(str, 1, Len(str) - 1)) + DigitValue(str[Len(str)])

\* str reads MM:SS.CC with the given fields: two digits of centiseconds after the point,
\* two digits of seconds after the colon, and before it the minutes in full, zero-padded
\* to two digits and no further
ReadsAs(str, mm, ss, cc) ==
  LET n == Len(str)
  IN  /\ n >= 8
      /\ str[n - 5] = ":"
      /\ str[n - 2] = "."
      /\ \A i \in (1..n) \ {n - 5, n - 2} : IsDigit(str[i])
      /\ n > 8 => str[1] # "0"
      /\ Numeral(SubSeq(str, 1, n - 6)) = mm
      /\ Numeral(SubSeq(str, n - 4, n - 3)) = ss
      /\ Numeral(SubSeq(str, n - 1, n)) = cc

\* C15: the formatter prints every elapsed time as MM:SS.CC with MM the whole minutes,
\* zero-padded to two digits and never wrapped, SS the seconds of the minute in 00..59 and
\* CC the hundredths truncated, in 00..99; 0 reads 00:00.00, 61234 reads 01:01.23 and
\* 3600000 reads 60:00.00.
C15_FormatTime ==
  /\ display = formatTime(time)
  /\ ReadsAs(display, (time \div 1000) \div 60, (time \div 1000) % 60, (time % 1000) \div 10)
  /\ (time \div 1000) % 60 \in 0..59
  /\ (time % 1000) \div 10 \in 0..99
  /\ formatTime(0) = <<"0", "0", ":", "0", "0", ".", "0", "0">>
  /\ formatTime(61234) = <<"0", "1", ":", "0", "1", ".", "2", "3">>
  /\ formatTime(3600000) = <<"6", "0", ":", "0", "0", ".", "0", "0">>

\* the display of 59 minutes 59.999 seconds: the hundredths are cut, nothing is carried
C15_Witness == time = 3599999 /\ display = <<"5", "9", ":", "5", "9", ".", "9", "9">>

\* the display of 100 minutes: three digits of minutes
C15_HundredMinutes ==
  time = 6000000 /\ display = <<"1", "0", "0", ":", "0", "0", ".", "0", "0">>

\* ---- C16
ScenarioLap1 == LapTime(1, 1500, 1500)
ScenarioLap2 == LapTime(2, 4200, 2700)
Shows0420 == display = <<"0", "0", ":", "0", "4", ".", "2", "0">>
Shows0000 == display = <<"0", "0", ":", "0", "0", ".", "0", "0">>

\* the first run, started at t = 0 and never paused or reset so far
FirstRunFromZero == isRunning /\ startTimeRef = 0 /\ resumedAt = 0 /\ lastResetAt < 0

\* no sample other than 4200 is displayed or waiting to be displayed
Sampled4200 == time = 4200 /\ (tickUpdate = None \/ Get(tickUpdate) = 4200)

\* C16: the run started at t = 0: Lap at a sampled time of 1500 records lap 1 with time 1500
\* and duration 1500; Lap at 4200 records lap 2 with time 4200 and duration 2700; Pause at
\* 4200 leaves the display at 00:04.20, where it stays while paused; Reset then leaves no
\* laps and a display of 00:00.00.
C16_Scenario ==
  [][ /\ (HandlerStep("lap") /\ FirstRunFromZero /\ time = 1500 /\ laps = <<>>) =>
           qLaps' = <<"append", ScenarioLap1>>
      /\ (ClickDone("lap") /\ FirstRunFromZero /\ laps = <<>> /\ qLaps = <<"append", ScenarioLap1>>) =>
           laps' = <<ScenarioLap1>>
      /\ (HandlerStep("lap") /\ FirstRunFromZero /\ time = 4200 /\ laps = <<ScenarioLap1>>) =>
           qLaps' = <<"append", ScenarioLap2>>
      /\ (ClickDone("lap") /\ FirstRunFromZero /\ qLaps = <<"append", ScenarioLap2>>) =>
           laps' = <<ScenarioLap1, ScenarioLap2>>
      /\ (op = "pause" /\ pc = "render" /\ pc' = "effects" /\ FirstRunFromZero /\ now = 4200
            /\ time = 4200) =>
           (~isRunning' /\ Shows0420' /\ Sampled4200')
      /\ (~isRunning /\ op # "reset" /\ resumedAt = 0 /\ lastResetAt < 0
            /\ Shows0420 /\ Sampled4200 /\ ~isRunning') =>
           (Shows0420' /\ Sampled4200')
      /\ (ClickDone("reset") /\ Shows0420 /\ laps = <<ScenarioLap1, ScenarioLap2>>) =>
           (laps' = <<>> /\ Shows0000' /\ time' = 0)
    ]_vars

\* both laps recorded, paused at 4200, the clock gone on to 5000 and the display unmoved
C16_Witness ==
  /\ ~isRunning /\ pc = "idle" /\ resumedAt = 0 /\ lastResetAt < 0
  /\ laps = <<ScenarioLap1, ScenarioLap2>>
  /\ pausedTimeRef = 4200 /\ Shows0420 /\ tickUpdate = None
  /\ now = 5000

\* the scenario's last state: after the Reset that follows that pause
C16_AfterReset ==
  /\ lastResetAt = 5000 /\ resumedAt = 0 /\ pc = "idle" /\ laps = <<>> /\ Shows0000
  /\ nextHandle = 2

\* ---- C17
\* C17: whenever the stopwatch is not running and every pending update has been applied, the
\* paused accumulator equals the displayed elapsed time, also when the interval callback
\* issued an update after the last render and before Pause was handled.
C17_PausedEqualsDisplayed ==
  (mounted /\ ~isRunning /\ pc = "idle" /\ tickUpdate = None) => pausedTimeRef = time

\* ---- C18
\* C18 as stated: with exactly one lap the Slowest badge is not shown, and with two or more
\* laps no lap carries both the Fastest and the Slowest badge, equal durations included.
C18_BadgesApart ==
  /\ Len(laps) = 1 => ~SlowestBadge(laps[1])
  /\ Len(laps) >= 2 => \A i \in 1..Len(laps) : ~(FastestBadge(laps[i]) /\ SlowestBadge(laps[i]))

AllDurationsEqual == \A i, j \in 1..Len(laps) : laps[i].lapDuration = laps[j].lapDuration

\* C18 (amended): with exactly one lap the Slowest badge is not shown; with two or more laps
\* no lap carries both badges unless all laps have the same duration, and then the first lap
\* carries both and no other lap carries any.
C18_BadgesApartUnlessAllEqual ==
  /\ Len(laps) = 1 => ~SlowestBadge(laps[1])
  /\ Len(laps) >= 2 =>
       IF AllDurationsEqual
       THEN /\ FastestBadge(laps[1]) /\ SlowestBadge(laps[1])
            /\ \A i \in 2..Len(laps) : ~FastestBadge(laps[i]) /\ ~SlowestBadge(laps[i])
       ELSE \A i \in 1..Len(laps) : ~(FastestBadge(laps[i]) /\ SlowestBadge(laps[i]))

\* three laps of the same duration
C18_Witness == Len(laps) = 3 /\ AllDurationsEqual /\ laps[1].lapDuration > 0

\* three laps, not all of the same duration, and a single lap
C18_UnequalLaps == Len(laps) = 3 /\ ~AllDurationsEqual
C18_SingleLap == Len(laps) = 1 /\ FastestBadge(laps[1])

\* ---- C19
\* C19: at most one interval is live at any time; intervalRef is non-null exactly when an
\* interval is live, and then it holds that interval's handle; and once the effect of the
\* current isRunning has run, an interval is live if and only if the stopwatch is running.
C19_OneTimer ==
  /\ Cardinality(timers) <= 1
  /\ intervalRef # Null <=> timers # {}
  /\ intervalRef # Null => \A t \in timers : t.h = intervalRef
  /\ (mounted /\ pc = "idle") => (timers # {} <=> isRunning)

\* running on the interval of a second or later start, with a Reset before that start
C19_Witness ==
  /\ mounted /\ pc = "idle" /\ isRunning
  /\ nextHandle >= 3 /\ intervalRef = nextHandle - 1
  /\ lastResetAt >= 0 /\ resumedAt >= lastResetAt
  /\ timers # {}

\* ---- C20
\* C20: the cumulative times of the recorded laps never decrease along the list, every lap
\* duration is non-negative, and the first lap's duration is positive, whatever the order
\* of Start, Pause, Lap and interval callbacks (Reset left aside), a Lap right after a
\* resume included; the clock of the model never goes back.
C20_LapsOrdered ==
  lastResetAt < 0 =>
    /\ \A i \in 1..Len(laps) : laps[i].lapDuration >= 0
    /\ \A i \in 2..Len(laps) : laps[i - 1].time <= laps[i].time
    /\ Len(laps) >= 1 => laps[1].lapDuration > 0

====
